---- MODULE Spec2Model ----
(***************************************************************************)
(* UsageParser: the two implementations of the usage-record parser,        *)
(* src/usage_parser.js (dispatch table of formatters) and                  *)
(* src/unnamed/part_000 (switch on the format character).                  *)
(*                                                                         *)
(* JavaScript text is a sequence of one-character strings, so that         *)
(* indexOf, substr, split, slice, the regular expressions, parseInt, the   *)
(* template-literal number formatting, isNaN and Number are computed       *)
(* character by character.  A JavaScript value is a record [t, s, n]: its  *)
(* typeof-like tag, its text when it is a string, its value when it is a   *)
(* number.  The text of the model ranges over the characters 0-9, a-g,     *)
(* the comma and the dot.                                                  *)
(***************************************************************************)
EXTENDS Integers, Sequences, FiniteSets

VARIABLES impl, input, i, output, pc, args

vars == <<impl, input, i, output, pc, args>>

\* length of a Hex payload: the {24} of the regular expression
HexLen == 24

-----------------------------------------------------------------------------
(* JavaScript values                                                       *)

Str(s) == [t |-> "string", s |-> s, n |-> 0]
Num(n) == [t |-> "number", s |-> <<>>, n |-> n]
Undefined == [t |-> "undefined", s |-> <<>>, n |-> 0]
Null == [t |-> "null", s |-> <<>>, n |-> 0]
Obj == [t |-> "object", s |-> <<>>, n |-> 0]

\* x == null (loose): true of null and undefined only
isNullish(v) == v.t \in {"null", "undefined"}

\* typeof x
typeof(v) == IF v.t = "null" THEN "object" ELSE v.t

-----------------------------------------------------------------------------
(* Characters                                                              *)

DecDigits == <<"0", "1", "2", "3", "4", "5", "6", "7", "8", "9">>
HexDigits == DecDigits \o <<"a", "b", "c", "d", "e", "f">>

isDecDigit(c) == \E k \in 1..Len(DecDigits) : DecDigits[k] = c
isHexDigit(c) == \E k \in 1..Len(HexDigits) : HexDigits[k] = c
digitValue(c) == (CHOOSE k \in 1..Len(HexDigits) : HexDigits[k] = c) - 1

\* \w of the regular expressions, over the model's characters
isWordChar(c) == c \notin {",", "."}

allDec(s) == \A k \in 1..Len(s) : isDecDigit(s[k])

-----------------------------------------------------------------------------
(* String methods                                                          *)

\* s.indexOf(c) for a one-character c: 0-based, -1 when absent
indexOf(s, c) ==
    IF \E k \in 1..Len(s) : s[k] = c
    THEN (CHOOSE k \in 1..Len(s) : s[k] = c /\ \A j \in 1..(k-1) : s[j] # c) - 1
    ELSE -1

\* s.substr(from, len) and s.substr(from), from >= 0
substr(s, from, len) == SubSeq(s, from + 1, IF from + len > Len(s) THEN Len(s) ELSE from + len)
substrFrom(s, from) == SubSeq(s, from + 1, Len(s))

\* s.substring(a, b), 0 <= a <= b
substring(s, a, b) == SubSeq(s, a + 1, IF b > Len(s) THEN Len(s) ELSE b)

\* s.slice(-1): the last character, or the empty string
sliceLast(s) == IF Len(s) = 0 THEN <<>> ELSE <<s[Len(s)]>>

\* s.split(c): the tokens between the occurrences of c; never empty
RECURSIVE split(_, _)
split(s, c) ==
    LET ix == indexOf(s, c)
    IN  IF ix < 0 THEN <<s>>
        ELSE <<substr(s, 0, ix)>> \o split(substrFrom(s, ix + 1), c)

\* parseInt(s, 16) of a non-empty string of hex digits
RECURSIVE parseIntHex(_)
parseIntHex(s) ==
    IF Len(s) = 0 THEN 0
    ELSE 16 * parseIntHex(SubSeq(s, 1, Len(s) - 1)) + digitValue(s[Len(s)])

\* value of a non-empty string of decimal digits
RECURSIVE decValue(_)
decValue(s) ==
    IF Len(s) = 0 THEN 0
    ELSE 10 * decValue(SubSeq(s, 1, Len(s) - 1)) + digitValue(s[Len(s)])

RECURSIVE binValue(_)
binValue(s) ==
    IF Len(s) = 0 THEN 0
    ELSE 2 * binValue(SubSeq(s, 1, Len(s) - 1)) + digitValue(s[Len(s)])

RECURSIVE pow10(_)
pow10(k) == IF k = 0 THEN 1 ELSE 10 * pow10(k - 1)

\* `${n}` of a non-negative integer: its decimal digits, no leading zero
RECURSIVE toString(_)
toString(n) ==
    IF n < 10 THEN <<DecDigits[n + 1]>>
    ELSE toString(n \div 10) \o <<DecDigits[(n % 10) + 1]>>

-----------------------------------------------------------------------------
(* Number(x) and isNaN(x)                                                  *)

\* The StringNumericLiteral forms that the model's characters can spell:
\* the empty string (0), decimal digits, digits with an exponent part
\* (1e2), and a binary literal (0b11).
isExpLiteral(s) ==
    \E k \in 2..(Len(s) - 1) :
        /\ s[k] = "e"
        /\ allDec(SubSeq(s, 1, k - 1))
        /\ allDec(SubSeq(s, k + 1, Len(s)))

isBinLiteral(s) ==
    /\ Len(s) >= 3
    /\ s[1] = "0"
    /\ s[2] = "b"
    /\ \A k \in 3..Len(s) : s[k] \in {"0", "1"}

stringIsNumeric(s) ==
    \/ Len(s) = 0
    \/ allDec(s)
    \/ isExpLiteral(s)
    \/ isBinLiteral(s)

stringToNumber(s) ==
    IF Len(s) = 0 THEN 0
    ELSE IF allDec(s) THEN decValue(s)
    ELSE IF isBinLiteral(s) THEN binValue(SubSeq(s, 3, Len(s)))
    ELSE LET k == CHOOSE k \in 2..(Len(s) - 1) : s[k] = "e"
         IN  decValue(SubSeq(s, 1, k - 1)) * pow10(decValue(SubSeq(s, k + 1, Len(s))))

\* isNaN(x): Number(x) is NaN.  Number(null) is 0, Number(undefined) and
\* Number({}) are NaN.
isNaN(v) ==
    CASE v.t = "number" -> FALSE
      [] v.t = "string" -> ~stringIsNumeric(v.s)
      [] v.t = "null" -> FALSE
      [] OTHER -> TRUE

\* Number(x), for x with ~isNaN(x)
Number(v) ==
    CASE v.t = "number" -> v
      [] v.t = "string" -> Num(stringToNumber(v.s))
      [] OTHER -> Num(0)

-----------------------------------------------------------------------------
(* Regular expressions                                                     *)

\* /^[0-9a-f]{24}$/.test(s)
testHex24(s) == Len(s) = HexLen /\ \A k \in 1..Len(s) : isHexDigit(s[k])

\* 25[0-5] | 2[0-4][0-9] | [01]?[0-9][0-9]?  matching the whole of w
octetMatches(w) ==
    \/ Len(w) = 3 /\ w[1] = "2" /\ w[2] = "5" /\ w[3] \in {"0", "1", "2", "3", "4", "5"}
    \/ Len(w) = 3 /\ w[1] = "2" /\ w[2] \in {"0", "1", "2", "3", "4"} /\ isDecDigit(w[3])
    \/ Len(w) = 3 /\ w[1] \in {"0", "1"} /\ isDecDigit(w[2]) /\ isDecDigit(w[3])
    \/ Len(w) = 2 /\ isDecDigit(w[1]) /\ isDecDigit(w[2])
    \/ Len(w) = 1 /\ isDecDigit(w[1])

\* \b before the 1-based position p of s
wordBoundary(s, p) ==
    LET before == p > 1 /\ isWordChar(s[p - 1])
        after == p <= Len(s) /\ isWordChar(s[p])
    IN  before # after

\* octet (\.octet){3} matching a substring of s that starts at position p
quadMatchesAt(s, p) ==
    \E l1, l2, l3, l4 \in 1..3 :
        LET p2 == p + l1 + 1
            p3 == p2 + l2 + 1
            p4 == p3 + l3 + 1
        IN  /\ p4 + l4 - 1 <= Len(s)
            /\ octetMatches(SubSeq(s, p, p + l1 - 1))
            /\ s[p + l1] = "."
            /\ octetMatches(SubSeq(s, p2, p2 + l2 - 1))
            /\ s[p2 + l2] = "."
            /\ octetMatches(SubSeq(s, p3, p3 + l3 - 1))
            /\ s[p3 + l3] = "."
            /\ octetMatches(SubSeq(s, p4, p4 + l4 - 1))

\* /(\b25[0-5]|\b2[0-4][0-9]|\b[01]?[0-9][0-9]?)(\.(25[0-5]|...)){3}/.test(s):
\* the expression has no ^ or $, so it searches s for a match
testIp(s) == \E p \in 1..Len(s) : wordBoundary(s, p) /\ quadMatchesAt(s, p)

-----------------------------------------------------------------------------
(* Results of #parseSingle: a record, null, or a thrown TypeError          *)

Record(id, dmcc, mnc, bytes_used, cellid, ip) ==
    [k |-> "record", id |-> id, dmcc |-> dmcc, mnc |-> mnc,
     bytes_used |-> bytes_used, cellid |-> cellid, ip |-> ip]
NullResult ==
    [k |-> "null", id |-> Null, dmcc |-> Null, mnc |-> Null,
     bytes_used |-> Null, cellid |-> Null, ip |-> Null]
TypeError ==
    [k |-> "throw", id |-> Null, dmcc |-> Null, mnc |-> Null,
     bytes_used |-> Null, cellid |-> Null, ip |-> Null]

\* (!typeof input) == `string`: !typeof input is a boolean, false unless
\* typeof input is the empty string; a boolean equals a string loosely only
\* when both convert to the same number, and Number(`string`) is NaN.
typeGuard(v) ==
    LET negated == (typeof(v) = "")
        stringLiteralIsNaN == TRUE
    IN  ~stringLiteralIsNaN /\ ~negated

\* input.indexOf / input.split is a function: only text has them among the
\* values of the model (calling it on anything else is a TypeError)
hasStringMethods(v) == v.t = "string"

-----------------------------------------------------------------------------
(* src/usage_parser.js                                                     *)

isValidIp(ip) == IF isNullish(ip) THEN FALSE ELSE testIp(ip.s)

numberOrNull(v) == IF isNaN(v) THEN Null ELSE Number(v)

formatOutput(id, mnc, bytes_used, dmcc, cellid, ip) ==
    Record(numberOrNull(id),
           IF typeof(dmcc) = "string" THEN dmcc ELSE Null,
           numberOrNull(mnc),
           numberOrNull(bytes_used),
           numberOrNull(cellid),
           IF isValidIp(ip) THEN ip ELSE Null)

HEX_applyIf(id) == sliceLast(id) = <<"6">>
HEX_isValid(data) == testHex24(data)
\* HEX process with bytes_used read from three nibbles, substring(4, 7)
HEX_process_shortSlice(id, data) ==
    LET mnc == parseIntHex(substring(data, 0, 4))
        bytes_used == parseIntHex(substring(data, 4, 7))
        cellid == parseIntHex(substring(data, 8, 16))
        ip == toString(parseIntHex(substring(data, 16, 18))) \o <<".">>
              \o toString(parseIntHex(substring(data, 18, 20))) \o <<".">>
              \o toString(parseIntHex(substring(data, 20, 22))) \o <<".">>
              \o toString(parseIntHex(substring(data, 22, 24)))
    IN  formatOutput(Str(id), Num(mnc), Num(bytes_used), Undefined, Num(cellid), Str(ip))

\* HEX process with ip passed in the dmcc position of formatOutput
HEX_process_ipAsDmcc(id, data) ==
    LET mnc == parseIntHex(substring(data, 0, 4))
        bytes_used == parseIntHex(substring(data, 4, 8))
        cellid == parseIntHex(substring(data, 8, 16))
        ip == toString(parseIntHex(substring(data, 16, 18))) \o <<".">>
              \o toString(parseIntHex(substring(data, 18, 20))) \o <<".">>
              \o toString(parseIntHex(substring(data, 20, 22))) \o <<".">>
              \o toString(parseIntHex(substring(data, 22, 24)))
    IN  formatOutput(Str(id), Num(mnc), Num(bytes_used), Str(ip), Num(cellid), Undefined)

HEX_process(id, data) ==
    LET mnc == parseIntHex(substring(data, 0, 4))
        bytes_used == parseIntHex(substring(data, 4, 8))
        cellid == parseIntHex(substring(data, 8, 16))
        ip == toString(parseIntHex(substring(data, 16, 18))) \o <<".">>
              \o toString(parseIntHex(substring(data, 18, 20))) \o <<".">>
              \o toString(parseIntHex(substring(data, 20, 22))) \o <<".">>
              \o toString(parseIntHex(substring(data, 22, 24)))
    IN  formatOutput(Str(id), Num(mnc), Num(bytes_used), Undefined, Num(cellid), Str(ip))

\* const [a, b, c, d] = array: a missing element is undefined
at(tokens, k) == IF k <= Len(tokens) THEN Str(tokens[k]) ELSE Undefined

EXTENDED_applyIf(id) == sliceLast(id) = <<"4">>
EXTENDED_isValid(data) == Len(split(data, ",")) = 4
\* EXTENDED process with mnc and bytes_used destructured in the other order
EXTENDED_process_swapped(id, data) ==
    LET tokens == split(data, ",")
        dmcc == at(tokens, 1)
        bytes_used == at(tokens, 2)
        mnc == at(tokens, 3)
        cellid == at(tokens, 4)
    IN  formatOutput(Str(id), mnc, bytes_used, dmcc, cellid, Undefined)

EXTENDED_process(id, data) ==
    LET tokens == split(data, ",")
        dmcc == at(tokens, 1)
        mnc == at(tokens, 2)
        bytes_used == at(tokens, 3)
        cellid == at(tokens, 4)
    IN  formatOutput(Str(id), mnc, bytes_used, dmcc, cellid, Undefined)

DEFAULT_applyIf(id) == TRUE
DEFAULT_isValid(data) == ~isNaN(Str(data))
DEFAULT_process(id, data) ==
    formatOutput(Str(id), Undefined, Str(data), Undefined, Undefined, Undefined)

parsingMethods == <<"HEX", "EXTENDED", "DEFAULT">>

applyIf(name, id) ==
    CASE name = "HEX" -> HEX_applyIf(id)
      [] name = "EXTENDED" -> EXTENDED_applyIf(id)
      [] name = "DEFAULT" -> DEFAULT_applyIf(id)

isValid(name, data) ==
    CASE name = "HEX" -> HEX_isValid(data)
      [] name = "EXTENDED" -> EXTENDED_isValid(data)
      [] name = "DEFAULT" -> DEFAULT_isValid(data)

process(name, id, data) ==
    CASE name = "HEX" -> HEX_process(id, data)
      [] name = "EXTENDED" -> EXTENDED_process(id, data)
      [] name = "DEFAULT" -> DEFAULT_process(id, data)

\* the first method of the table whose applyIf accepts the id
getFormatter(id) ==
    LET x == CHOOSE x \in 1..Len(parsingMethods) :
                 /\ applyIf(parsingMethods[x], id)
                 /\ \A y \in 1..(x - 1) : ~applyIf(parsingMethods[y], id)
    IN  parsingMethods[x]

parseSingle(v) ==
    IF typeGuard(v) THEN NullResult
    ELSE IF ~hasStringMethods(v) THEN TypeError
    ELSE LET firstCommaIx == indexOf(v.s, ",")
         IN  IF firstCommaIx < 0 THEN NullResult
             ELSE LET id == substr(v.s, 0, firstCommaIx)
                      data == substrFrom(v.s, firstCommaIx + 1)
                      formatter == getFormatter(id)
                  IN  IF ~isValid(formatter, data) THEN NullResult
                      ELSE process(formatter, id, data)

-----------------------------------------------------------------------------
(* src/unnamed/part_000                                                    *)

PROCESS_HEX == <<"6">>
PROCESS_EXTENDED == <<"4">>

formatOutput_p0(id, mnc, bytes_used, dmcc, cellid, ip) ==
    LET isValidIp_p0 == IF isNullish(ip) THEN FALSE ELSE testIp(ip.s)
    IN  Record(IF isNaN(id) THEN Null ELSE Number(id),
               IF typeof(dmcc) = "string" THEN dmcc ELSE Null,
               IF isNaN(mnc) THEN Null ELSE Number(mnc),
               IF isNaN(bytes_used) THEN Null ELSE Number(bytes_used),
               IF isNaN(cellid) THEN Null ELSE Number(cellid),
               IF isValidIp_p0 THEN ip ELSE Null)

\* parseBasic with bytes_used passed in the mnc position of formatOutput
parseBasic_asMnc(tokens) ==
    formatOutput_p0(at(tokens, 1), at(tokens, 2), Undefined, Undefined, Undefined, Undefined)

parseBasic(tokens) ==
    formatOutput_p0(at(tokens, 1), Undefined, at(tokens, 2), Undefined, Undefined, Undefined)

parseHex(tokens) ==
    LET id == at(tokens, 1)
        valid == testHex24(tokens[2])
        nibbles == tokens[2]
        mnc == parseIntHex(substring(nibbles, 0, 4))
        bytes_used == parseIntHex(substring(nibbles, 4, 8))
        cellid == parseIntHex(substring(nibbles, 8, 16))
        ip == toString(parseIntHex(substring(nibbles, 16, 18))) \o <<".">>
              \o toString(parseIntHex(substring(nibbles, 18, 20))) \o <<".">>
              \o toString(parseIntHex(substring(nibbles, 20, 22))) \o <<".">>
              \o toString(parseIntHex(substring(nibbles, 22, 24)))
    IN  IF ~valid THEN NullResult
        ELSE formatOutput_p0(id, Num(mnc), Num(bytes_used), Undefined, Num(cellid), Str(ip))

parseExtended(tokens) ==
    formatOutput_p0(at(tokens, 1), at(tokens, 3), at(tokens, 4), at(tokens, 2),
                    at(tokens, 5), Undefined)

\* [isValid, format, tokens], or a TypeError when input has no split method
validateInput(v) ==
    IF typeGuard(v) THEN [threw |-> FALSE, isValid |-> FALSE, format |-> <<>>, tokens |-> <<>>]
    ELSE IF ~hasStringMethods(v)
    THEN [threw |-> TRUE, isValid |-> FALSE, format |-> <<>>, tokens |-> <<>>]
    ELSE LET tokens == split(v.s, ",")
         IN  IF Len(tokens) < 2
             THEN [threw |-> FALSE, isValid |-> FALSE, format |-> <<>>, tokens |-> tokens]
             ELSE [threw |-> FALSE, isValid |-> TRUE, format |-> sliceLast(tokens[1]),
                   tokens |-> tokens]

parseSingle_p0(v) ==
    LET formattedInput == validateInput(v)
    IN  IF formattedInput.threw THEN TypeError
        ELSE IF ~formattedInput.isValid THEN NullResult
        ELSE IF formattedInput.format = PROCESS_EXTENDED
             THEN parseExtended(formattedInput.tokens)
        ELSE IF formattedInput.format = PROCESS_HEX
             THEN parseHex(formattedInput.tokens)
        ELSE parseBasic(formattedInput.tokens)

-----------------------------------------------------------------------------
(* Inputs                                                                  *)

\* deadbeef00000000cafe0102
hexA ==
    <<"d", "e", "a", "d", "b", "e", "e", "f", "0", "0", "0", "0", "0", "0", "0", "0", "c", "a", "f", "e", "0", "1", "0", "2">>
\* 000100f07fffffffff000a63: the largest cellid below 2^31
hexB ==
    <<"0", "0", "0", "1", "0", "0", "f", "0", "7", "f", "f", "f", "f", "f", "f", "f", "f", "f", "0", "0", "0", "a", "6", "3">>
\* deadbeef00000000cafe010
hexShort ==
    <<"d", "e", "a", "d", "b", "e", "e", "f", "0", "0", "0", "0", "0", "0", "0", "0", "c", "a", "f", "e", "0", "1", "0">>
\* deadbeef00000000cafe010g
hexBad ==
    <<"d", "e", "a", "d", "b", "e", "e", "f", "0", "0", "0", "0", "0", "0", "0", "0", "c", "a", "f", "e", "0", "1", "0", "g">>

\* The text lines handed to parse: lines with no comma; Default lines with a
\* numeric, empty, non-numeric and multi-token payload; Hex lines with a
\* well-formed, short, non-hex, empty and over-long payload; Extended lines
\* with four, fewer and more tokens, with empty and non-numeric tokens.
Lines ==
    {<<>>,
     <<"1", "2", "3">>,
     <<"6">>,
     <<"1", "2", "3", ",", "5", "0", "0">>,
     <<",", "5", "0", "0">>,
     <<"1", "2", "3", ",">>,
     <<"7", ",", "a", "b">>,
     <<"1", "2", ",", "1", ",", "2">>,
     <<"7", ",", "1", "e", "2">>,
     <<"3", ",", "0", "b", "1", "1">>,
     <<"7", ",", "1", ",", "2", ",", "3", ",", "4">>,
     <<"6", ",">> \o hexA,
     <<"1", "6", ",">> \o hexB,
     <<"a", "6", ",">> \o hexA,
     <<"6", ",">> \o hexShort,
     <<"6", ",">> \o hexBad,
     <<"6", ",">>,
     <<"6", ",">> \o hexA \o <<",", "1">>,
     <<"5", ",">> \o hexA,
     <<"1", "4", ",", "1", ",", "2", ",", "3", ",", "4">>,
     <<"4", ",", "3", "1", "0", ",", ",", "7", ",", "9">>,
     <<"4", ",", ",", ",", ",">>,
     <<"4", ",", "1", ",", "2", ",", "3">>,
     <<"4", ",", "1", ",", "2", ",", "3", ",", "4", ",", "5">>,
     <<"a", "4", ",", "a", "b", ",", "1", ",", "2", ",", "3">>,
     <<"4", ",", "5", "0", "0">>}


\* Values that are not text: null, undefined, a number, an object
NonText == {Null, Undefined, Num(5), Obj}

Values == {Str(l) : l \in Lines} \cup NonText

\* longest batch handed to parse
MaxBatch == 2

Batches == UNION {[1..n -> Values] : n \in 0..MaxBatch}

\* parse(input): input is one value or an array of values
Inputs ==
    {[isArray |-> TRUE, items |-> b] : b \in Batches}
    \cup {[isArray |-> FALSE, items |-> <<v>>] : v \in Values}

Impls == {"usage_parser", "part_000"}

NoArgs == <<>>

-----------------------------------------------------------------------------
(* parse, the same in both files                                           *)

\* this.#parseSingle of the file under execution
parseSingleOf(file, v) ==
    IF file = "usage_parser" THEN parseSingle(v) ELSE parseSingle_p0(v)

\* output.unshift(x) in place of output.push(x)
unshift(out, x) == <<x>> \o out

\* output.push(x)
push(out, x) == Append(out, x)

Init ==
    /\ impl \in Impls
    /\ input \in Inputs
    /\ i = 0
    /\ output = <<>>
    /\ pc = "parse"
    /\ args = NoArgs

\* Array.isArray(input): const output = []; input.forEach(...)
parseArray ==
    /\ pc = "parse"
    /\ input.isArray
    /\ pc' = "forEach"
    /\ i' = 0
    /\ output' = <<>>
    /\ UNCHANGED <<impl, input, args>>

\* one call of the forEach callback: output.push(this.#parseSingle(string));
\* a TypeError thrown by #parseSingle leaves forEach and parse
forEachCallback ==
    /\ pc = "forEach"
    /\ i < Len(input.items)
    /\ LET r == parseSingleOf(impl, input.items[i + 1])
       IN  IF r.k = "throw"
           THEN /\ pc' = "threw"
                /\ UNCHANGED <<i, output>>
           ELSE /\ output' = push(output, r)
                /\ i' = i + 1
                /\ pc' = pc
    /\ UNCHANGED <<impl, input, args>>

\* return output;
returnOutput ==
    /\ pc = "forEach"
    /\ i = Len(input.items)
    /\ pc' = "returned"
    /\ UNCHANGED <<impl, input, i, output, args>>

\* return [this.#parseSingle(input)];
parseOne ==
    /\ pc = "parse"
    /\ ~input.isArray
    /\ LET r == parseSingleOf(impl, input.items[1])
       IN  IF r.k = "throw"
           THEN /\ pc' = "threw"
                /\ UNCHANGED output
           ELSE /\ output' = <<r>>
                /\ pc' = "returned"
    /\ UNCHANGED <<impl, input, i, args>>

Next ==
    \/ parseArray
    \/ forEachCallback
    \/ returnOutput
    \/ parseOne

Spec == Init /\ [][Next]_vars

-----------------------------------------------------------------------------
(* #formatOutput applied to raw field candidates, and again to its result  *)

IpTexts ==
    {<<"2", "5", "5", ".", "2", "5", "5", ".", "2", "5", "5", ".", "2", "5", "5">>,
     <<"2", "5", "6", ".", "0", ".", "0", ".", "1">>,
     <<"1", ".", "2", ".", "3">>,
     <<"1", ".", "2", ".", "3", ".", "4">>,
     <<"1", ".", "2", ".", "3", ".", "2", "5", "6">>,
     <<"1", ".", "2", ".", "3", ".", "4", ".", "5">>,
     <<"0", ".", "0", ".", "0", ".", "0">>,
     <<"1", "9", "2", ".", "1", "6", "8", ".", "0", "1", ".", "9", "9">>,
     <<"a", "1", ".", "2", ".", "3", ".", "4">>,
     <<"1", ",", "2", ",", "3", ",", "4">>,
     <<>>}

NumberCandidates ==
    {Undefined, Null, Num(7), Str(<<>>), Str(<<"5", "0", "0">>), Str(<<"a", "b">>)}

ArgSets ==
    [id : {Str(<<"1", "2", "3">>), Str(<<>>), Str(<<"a", "6">>)},
     mnc : NumberCandidates,
     bytes_used : {Undefined, Num(7), Str(<<"5", "0", "0">>)},
     dmcc : {Undefined, Null, Str(<<"3", "1", "0">>), Str(<<>>)},
     cellid : {Undefined, Num(7)},
     ip : {Undefined, Null} \cup {Str(s) : s \in IpTexts}]

formatOutputOf(file, a) ==
    IF file = "usage_parser"
    THEN formatOutput(a.id, a.mnc, a.bytes_used, a.dmcc, a.cellid, a.ip)
    ELSE formatOutput_p0(a.id, a.mnc, a.bytes_used, a.dmcc, a.cellid, a.ip)

InitFormat ==
    /\ impl \in Impls
    /\ args \in ArgSets
    /\ input = [isArray |-> FALSE, items |-> <<>>]
    /\ i = 0
    /\ output = <<>>
    /\ pc = "format"

\* r = formatOutput(id, mnc, bytes_used, dmcc, cellid, ip)
normalize ==
    /\ pc = "format"
    /\ output' = <<formatOutputOf(impl, args)>>
    /\ pc' = "normalized"
    /\ UNCHANGED <<impl, input, i, args>>

\* formatOutput(r.id, r.mnc, r.bytes_used, r.dmcc, r.cellid, r.ip)
renormalize ==
    /\ pc = "normalized"
    /\ output' = Append(output, formatOutputOf(impl, output[1]))
    /\ pc' = "renormalized"
    /\ UNCHANGED <<impl, input, i, args>>

NextFormat ==
    \/ normalize
    \/ renormalize

SpecFormat == InitFormat /\ [][NextFormat]_vars

-----------------------------------------------------------------------------
(* Vocabulary of the properties                                            *)

isText(v) == v.t = "string"
hasComma(l) == \E k \in 1..Len(l) : l[k] = ","
firstComma(l) == CHOOSE k \in 1..Len(l) : l[k] = "," /\ \A j \in 1..(k - 1) : l[j] # ","
\* the ID of a line: the text before its first comma
lineId(l) == SubSeq(l, 1, firstComma(l) - 1)
\* the payload of a line: the text after its first comma
linePayload(l) == SubSeq(l, firstComma(l) + 1, Len(l))
endsIn(id, c) == Len(id) > 0 /\ id[Len(id)] = c

\* the lines whose results are in output: output[k] is the slot of items[k]
Slots == 1..Len(output)
line(k) == input.items[k].s

\* n written as w lowercase hex digits, zero-padded
RECURSIVE toHex(_, _)
toHex(n, w) ==
    IF w = 0 THEN <<>> ELSE toHex(n \div 16, w - 1) \o <<HexDigits[(n % 16) + 1]>>

\* the whole of s is four decimal octets, each in 0..255, separated by dots
isDottedQuad(s) ==
    LET parts == split(s, ".")
    IN  /\ Len(parts) = 4
        /\ \A k \in 1..4 :
               /\ Len(parts[k]) \in 1..3
               /\ allDec(parts[k])
               /\ decValue(parts[k]) <= 255

\* the payload shapes the three handlers accept
hexShape(p) == Len(p) = 24 /\ \A k \in 1..Len(p) : isHexDigit(p[k])
extendedShape(p) == Len(split(p, ",")) = 4
defaultShape(p) == ~hasComma(p) /\ stringIsNumeric(p)

\* the line has no comma, or the handler its ID selects rejects its payload
shapeRejected(l) ==
    \/ ~hasComma(l)
    \/ /\ hasComma(l)
       /\ IF endsIn(lineId(l), "6") THEN ~hexShape(linePayload(l))
          ELSE IF endsIn(lineId(l), "4") THEN ~extendedShape(linePayload(l))
          ELSE ~defaultShape(linePayload(l))

\* the numeric value of a raw token: absent when the token is empty or is
\* not a number
numericField(tok) ==
    IF Len(tok) = 0 \/ ~stringIsNumeric(tok) THEN Null ELSE Num(stringToNumber(tok))

\* Number(tok) of a raw token, absent when it is NaN
jsNumber(tok) ==
    IF stringIsNumeric(tok) THEN Num(stringToNumber(tok)) ELSE Null

-----------------------------------------------------------------------------
(* Properties                                                              *)

\* C1: parse never throws: whatever the input (text or not, alone or in a
\* batch), the call does not end in a thrown exception.
C1_NeverThrows == pc # "threw"

\* C2: in both implementations a line with no comma, or whose payload the
\* handler selected by the last character of its ID rejects, yields absent.
C2_RejectedShapeIsAbsent ==
    \A k \in Slots :
        (isText(input.items[k]) /\ shapeRejected(line(k))) => output[k].k = "null"

\* C3: parse returns one slot per line, in input order: while a batch is
\* processed the output holds exactly the results of the lines read so far,
\* each equal to the result of parsing that line alone; parse returns when
\* all lines are read, and a single string yields one slot.
C3_OneSlotPerLine ==
    /\ (input.isArray /\ pc \in {"forEach", "returned"}) =>
           /\ Len(output) = i
           /\ \A k \in 1..i : output[k] = parseSingleOf(impl, input.items[k])
    /\ (input.isArray /\ pc = "returned") => Len(output) = Len(input.items)
    /\ (~input.isArray /\ pc = "returned") =>
           output = <<parseSingleOf(impl, input.items[1])>>

\* a batch whose first line failed and whose second line parsed
C3_Witness ==
    /\ pc = "returned"
    /\ input.isArray
    /\ Len(input.items) = 2
    /\ output[1].k = "null"
    /\ output[2].k = "record"

\* C4: Hex decoding is reversible: for a line whose ID ends in 6 and whose
\* payload is 24 hex digits, the record's mnc (4 digits), bytes_used (4),
\* cellid (8) and the four ip octets (2 each) written in hex reproduce the
\* payload, and ip is not absent.
C4_HexReversible ==
    \A k \in Slots :
        (/\ isText(input.items[k])
         /\ hasComma(line(k))
         /\ endsIn(lineId(line(k)), "6")
         /\ hexShape(linePayload(line(k))))
        => LET r == output[k]
               octets == split(r.ip.s, ".")
           IN  /\ r.k = "record"
               /\ r.ip.t = "string"
               /\ r.mnc.t = "number" /\ r.bytes_used.t = "number" /\ r.cellid.t = "number"
               /\ Len(octets) = 4
               /\ \A j \in 1..4 : Len(octets[j]) > 0 /\ allDec(octets[j])
               /\ toHex(r.mnc.n, 4) \o toHex(r.bytes_used.n, 4) \o toHex(r.cellid.n, 8)
                  \o toHex(decValue(octets[1]), 2) \o toHex(decValue(octets[2]), 2)
                  \o toHex(decValue(octets[3]), 2) \o toHex(decValue(octets[4]), 2)
                  = linePayload(line(k))

\* a returned Hex record with a non-zero cellid and a three-digit octet
C4_Witness ==
    /\ pc = "returned"
    /\ \E k \in Slots :
           /\ isText(input.items[k])
           /\ hasComma(line(k))
           /\ endsIn(lineId(line(k)), "6")
           /\ hexShape(linePayload(line(k)))
           /\ output[k].k = "record"
           /\ output[k].cellid.n > 0
           /\ output[k].ip.t = "string"

\* C5: normalization is idempotent: the normalizer applied to the fields of
\* a record it returned gives that record back.
C5_Idempotent == pc = "renormalized" => output[2] = output[1]

\* C6: each numeric field of a returned record is the value of its raw token
\* when the token is a number and absent otherwise; an empty token yields
\* absent, not zero.
C6_NumericFieldRule ==
    \A k \in Slots :
        (isText(input.items[k]) /\ hasComma(line(k)) /\ output[k].k = "record")
        => LET id == lineId(line(k))
               tokens == split(linePayload(line(k)), ",")
               r == output[k]
           IN  /\ r.id = numericField(id)
               /\ (~endsIn(id, "6") /\ ~endsIn(id, "4") /\ Len(tokens) = 1)
                      => r.bytes_used = numericField(tokens[1])
               /\ (endsIn(id, "4") /\ Len(tokens) = 4)
                      => /\ r.mnc = numericField(tokens[2])
                         /\ r.bytes_used = numericField(tokens[3])
                         /\ r.cellid = numericField(tokens[4])

\* C7: the normalizer keeps ip only if the whole string is a dotted quad of
\* four octets in 0..255 and sets it to absent otherwise; the other five
\* fields do not depend on the ip argument.
C7_IpWholeStringQuad ==
    pc = "normalized" =>
        LET r == output[1]
            noIp == formatOutputOf(impl, [args EXCEPT !.ip = Undefined])
        IN  /\ r.ip = IF isText(args.ip) /\ isDottedQuad(args.ip.s) THEN args.ip ELSE Null
            /\ r.id = noIp.id /\ r.dmcc = noIp.dmcc /\ r.mnc = noIp.mnc
            /\ r.bytes_used = noIp.bytes_used /\ r.cellid = noIp.cellid

\* C8: in every record parse returns, ip is absent or a dotted quad of four
\* octets in 0..255 and is present only when the ID ends in 6; dmcc is
\* present only when the ID ends in 4.
C8_FieldPresence ==
    \A k \in Slots :
        output[k].k = "record" =>
            LET r == output[k]
                id == lineId(line(k))
            IN  /\ r.ip.t \in {"null", "string"}
                /\ r.ip.t = "string" => isDottedQuad(r.ip.s) /\ endsIn(id, "6")
                /\ r.dmcc.t \in {"null", "string"}
                /\ r.dmcc.t = "string" => endsIn(id, "4")

\* a returned batch with a record that has an ip and one that has a dmcc
C8_Witness ==
    /\ pc = "returned"
    /\ \E j, k \in Slots :
           /\ output[j].k = "record" /\ output[j].ip.t = "string"
           /\ output[k].k = "record" /\ output[k].dmcc.t = "string"

\* C9: an Extended line maps positionally: for a line whose ID ends in 4 and
\* whose payload has exactly four comma-separated tokens t1..t4, the record
\* has dmcc = t1 as text, mnc = Number(t2), bytes_used = Number(t3),
\* cellid = Number(t4), id = Number(ID), and ip absent (a field whose token
\* is not a number being absent).
C9_ExtendedPositional ==
    \A k \in Slots :
        (/\ isText(input.items[k])
         /\ hasComma(line(k))
         /\ endsIn(lineId(line(k)), "4")
         /\ extendedShape(linePayload(line(k))))
        => LET t == split(linePayload(line(k)), ",")
               r == output[k]
           IN  /\ r.k = "record"
               /\ r.dmcc = Str(t[1])
               /\ r.mnc = jsNumber(t[2])
               /\ r.bytes_used = jsNumber(t[3])
               /\ r.cellid = jsNumber(t[4])
               /\ r.id = jsNumber(lineId(line(k)))
               /\ r.ip = Null

\* a returned Extended record whose four numeric fields differ pairwise
C9_Witness ==
    /\ pc = "returned"
    /\ \E k \in Slots :
           /\ isText(input.items[k])
           /\ hasComma(line(k))
           /\ endsIn(lineId(line(k)), "4")
           /\ extendedShape(linePayload(line(k)))
           /\ output[k].k = "record"
           /\ output[k].mnc.t = "number" /\ output[k].bytes_used.t = "number"
           /\ output[k].mnc.n # output[k].bytes_used.n
           /\ output[k].cellid.n # output[k].bytes_used.n

\* C10: on every text line that usage_parser.js turns into a record,
\* part_000 returns a record equal in all six fields (so part_000 accepts
\* every line usage_parser.js accepts).
C10_Refinement ==
    impl = "part_000" =>
        \A k \in Slots :
            (isText(input.items[k]) /\ parseSingle(input.items[k]).k = "record")
            => output[k] = parseSingle(input.items[k])

\* part_000 returned a batch with a line both accept and a line only it accepts
C10_Witness ==
    /\ impl = "part_000"
    /\ pc = "returned"
    /\ \E j, k \in Slots :
           /\ isText(input.items[j]) /\ isText(input.items[k])
           /\ parseSingle(input.items[j]).k = "record" /\ output[j].k = "record"
           /\ parseSingle(input.items[k]).k = "null" /\ output[k].k = "record"

====
